---- MODULE Spec2Model ----
(***************************************************************************)
(* Model of src/main.py: the Glue job that validates a payroll filing CSV  *)
(* and writes one issue record per rule that found offending rows.         *)
(*                                                                         *)
(* Cell values are CSV cells: either null or a string.  Strings are        *)
(* sequences of one-character strings so that the regular expressions, the *)
(* string comparison and the date/double conversions the Spark column     *)
(* expressions perform can be computed character by character.            *)
(*                                                                         *)
(* The columns of df are string columns: the script itself tests them     *)
(* with rlike and with cast('double').  The reader is configured without  *)
(* multi-line cells (lines 26-31), so a cell holds no line terminator and  *)
(* the $ of a pattern stands for the end of the cell.  Casts follow       *)
(* Spark's default (non-ANSI) mode: a string that does not convert        *)
(* becomes null instead of raising.                                        *)
(***************************************************************************)
EXTENDS Integers, Sequences, FiniteSets, TLC

VARIABLES
    columns,             \* the column names of df (the CSV header), line 41
    rows,                \* the rows of df, line 41
    validation_results,  \* the list built by lines 44-181
    pc,                  \* position of the script inside validate_data_quality
    field_idx,           \* position of the loop of line 73 in required_fields
    error,               \* the exception that ended the run, or "none"
    clock,               \* wall clock read by datetime.now(), in clock ticks
    written,             \* destination paths written so far, in write order
    runs,                \* number of invocations started so far
    output_path          \* args['output_path'] of the running invocation

vars == <<columns, rows, validation_results, pc, field_idx, error, clock, written, runs,
          output_path>>

----------------------------------------------------------------------------
(* Bounds of the model *)

MaxRows == 2
MaxRuns == 2
MaxClock == 3
TicksPerSecond == 2

----------------------------------------------------------------------------
(* Strings *)

\* The characters a cell may hold, in runs of consecutive ASCII codes.
Punct == << "+", ",", "-", ".", "/", "0", "1", "2", "3", "4", "5", "6", "7", "8", "9", ":" >>
Upper == << "A", "B", "C", "D", "E", "F", "G", "H", "I", "J", "K", "L", "M",
            "N", "O", "P", "Q", "R", "S", "T", "U", "V", "W", "X", "Y", "Z" >>
Lower == << "a", "b", "c", "d", "e", "f", "g", "h", "i", "j", "k", "l", "m",
            "n", "o", "p", "q", "r", "s", "t", "u", "v", "w", "x", "y", "z" >>

IndexIn(seq, c) == CHOOSE k \in 1..Len(seq) : seq[k] = c
Range(seq) == {seq[k] : k \in 1..Len(seq)}

\* The ASCII code of a character.
Code(c) == IF c = " " THEN 32
           ELSE IF c \in Range(Punct) THEN 42 + IndexIn(Punct, c)
           ELSE IF c \in Range(Upper) THEN 64 + IndexIn(Upper, c)
           ELSE 96 + IndexIn(Lower, c)

Digits == {"0", "1", "2", "3", "4", "5", "6", "7", "8", "9"}
UpperCase == Range(Upper)

AllDigits(s) == \A k \in 1..Len(s) : s[k] \in Digits

DigitValue(c) == Code(c) - 48

RECURSIVE ToNat(_)
ToNat(s) == IF s = <<>> THEN 0
            ELSE 10 * ToNat(SubSeq(s, 1, Len(s) - 1)) + DigitValue(s[Len(s)])

\* Binary (byte-wise) order of two strings, as Spark orders StringType values.
RECURSIVE StrLess(_, _)
StrLess(a, b) ==
    IF b = <<>> THEN FALSE
    ELSE IF a = <<>> THEN TRUE
    ELSE IF Code(Head(a)) # Code(Head(b)) THEN Code(Head(a)) < Code(Head(b))
    ELSE StrLess(Tail(a), Tail(b))

\* The string without its leading and trailing blanks.
RECURSIVE Trim(_)
Trim(s) == IF s = <<>> THEN s
           ELSE IF Head(s) = " " THEN Trim(Tail(s))
           ELSE IF s[Len(s)] = " " THEN Trim(SubSeq(s, 1, Len(s) - 1))
           ELSE s

\* Index of the first occurrence of a character of cs in s, Len(s)+1 if none.
FirstOf(s, cs) ==
    IF \E k \in 1..Len(s) : s[k] \in cs
    THEN CHOOSE k \in 1..Len(s) : s[k] \in cs /\ \A j \in 1..(k - 1) : s[j] \notin cs
    ELSE Len(s) + 1

----------------------------------------------------------------------------
(* Cells and SQL three-valued logic *)

NULL == [isNull |-> TRUE, str |-> <<>>]
S(t) == [isNull |-> FALSE, str |-> t]

SQL_TRUE == "true"
SQL_FALSE == "false"
SQL_NULL == "null"

sql_bool(b) == IF b THEN SQL_TRUE ELSE SQL_FALSE

sql_not(a) == IF a = SQL_NULL THEN SQL_NULL
              ELSE IF a = SQL_TRUE THEN SQL_FALSE ELSE SQL_TRUE

sql_and(a, b) == IF a = SQL_FALSE \/ b = SQL_FALSE THEN SQL_FALSE
                 ELSE IF a = SQL_NULL \/ b = SQL_NULL THEN SQL_NULL
                 ELSE SQL_TRUE

sql_or(a, b) == IF a = SQL_TRUE \/ b = SQL_TRUE THEN SQL_TRUE
                ELSE IF a = SQL_NULL \/ b = SQL_NULL THEN SQL_NULL
                ELSE SQL_FALSE

isNull(v) == sql_bool(v.isNull)
isNotNull(v) == sql_bool(~v.isNull)

----------------------------------------------------------------------------
(* Column expressions *)

\* col.rlike('^[0-9]{4}-[0-9]{2}-[0-9]{2}$'), line 87, on a string.
matches_date_pattern(s) ==
    /\ Len(s) = 10
    /\ s[5] = "-" /\ s[8] = "-"
    /\ \A k \in {1, 2, 3, 4, 6, 7, 9, 10} : s[k] \in Digits

\* col.rlike('^[0-9]{9}$'), lines 113 and 149, on a string.
matches_nine_digits(s) == Len(s) = 9 /\ AllDigits(s)

\* col.rlike('^[A-Z]{2}$'), line 125, on a string.
matches_state_code(s) == Len(s) = 2 /\ \A k \in 1..2 : s[k] \in UpperCase

\* col.rlike('^[0-9]{5}(?:-[0-9]{4})?$'), line 137, on a string.
matches_postal_code(s) ==
    \/ Len(s) = 5 /\ AllDigits(s)
    \/ Len(s) = 10 /\ s[6] = "-" /\ AllDigits(SubSeq(s, 1, 5)) /\ AllDigits(SubSeq(s, 7, 10))

\* Whether a string matches one of the patterns the script uses.
matches(s, pattern) ==
    CASE pattern = "^[0-9]{4}-[0-9]{2}-[0-9]{2}$" -> matches_date_pattern(s)
      [] pattern = "^[0-9]{9}$" -> matches_nine_digits(s)
      [] pattern = "^[A-Z]{2}$" -> matches_state_code(s)
      [] pattern = "^[0-9]{5}(?:-[0-9]{4})?$" -> matches_postal_code(s)

\* col.rlike(pattern): null for a null cell, else whether the pattern matches.
rlike(v, pattern) == IF v.isNull THEN SQL_NULL ELSE sql_bool(matches(v.str, pattern))

IsLeapYear(y) == y % 4 = 0 /\ (y % 100 # 0 \/ y % 400 = 0)

DaysInMonth(y, m) ==
    IF m = 2 THEN (IF IsLeapYear(y) THEN 29 ELSE 28)
    ELSE IF m \in {4, 6, 9, 11} THEN 30 ELSE 31

NullDate == [isNull |-> TRUE, y |-> 0, m |-> 0, d |-> 0]

\* The text of a date up to its time part, and the segments dashes cut it into.
DateText(s) ==
    LET t == Trim(s)
        body == IF t # <<>> /\ t[1] \in {"-", "+"} THEN Tail(t) ELSE t
        cut == FirstOf(body, {" ", "T"})
    IN  [negative |-> t # <<>> /\ t[1] = "-",
         part |-> SubSeq(body, 1, cut - 1),
         terminated |-> cut <= Len(body)]

DateSegments(part) ==
    LET d1 == FirstOf(part, {"-"})
        rest1 == SubSeq(part, d1 + 1, Len(part))
        d2 == FirstOf(rest1, {"-"})
    IN  IF d1 > Len(part) THEN << part >>
        ELSE IF d2 > Len(rest1) THEN << SubSeq(part, 1, d1 - 1), rest1 >>
        ELSE << SubSeq(part, 1, d1 - 1), SubSeq(rest1, 1, d2 - 1),
                SubSeq(rest1, d2 + 1, Len(rest1)) >>

\* to_date(col), line 162: the cast of a string to a date, null when the
\* string is no date ([+-]yyyy[-[m]m[-[d]d]] with an optional time part).
to_date(v) ==
    IF v.isNull \/ Trim(v.str) = <<>> THEN NullDate
    ELSE
      LET dt == DateText(v.str)
          segs == DateSegments(dt.part)
          n == Len(segs)
          wellFormed ==
              /\ \A k \in 1..n : AllDigits(segs[k])
              /\ Len(segs[1]) >= 4 /\ Len(segs[1]) <= 7
              /\ \A k \in 2..n : Len(segs[k]) >= 1 /\ Len(segs[k]) <= 2
              /\ (dt.terminated => n = 3)
          y == ToNat(segs[1])
          m == IF n >= 2 THEN ToNat(segs[2]) ELSE 1
          d == IF n >= 3 THEN ToNat(segs[3]) ELSE 1
      IN  IF wellFormed /\ m >= 1 /\ m <= 12 /\ d >= 1 /\ d <= DaysInMonth(y, m)
          THEN [isNull |-> FALSE, y |-> (IF dt.negative THEN 0 - y ELSE y), m |-> m, d |-> d]
          ELSE NullDate

\* a < b on two dates, line 162: null when either is null.
date_lt(a, b) ==
    IF a.isNull \/ b.isNull THEN SQL_NULL
    ELSE sql_bool(\/ a.y < b.y
                  \/ a.y = b.y /\ a.m < b.m
                  \/ a.y = b.y /\ a.m = b.m /\ a.d < b.d)

ToLower(c) == IF c \in Range(Upper) THEN Lower[IndexIn(Upper, c)] ELSE c
LowerCase(s) == [k \in 1..Len(s) |-> ToLower(s[k])]

Unsigned(t) == IF t # <<>> /\ t[1] \in {"+", "-"} THEN Tail(t) ELSE t

\* The special literals a string-to-double cast accepts.
IsSpecialDouble(t) ==
    \/ LowerCase(Unsigned(t)) \in {<<"i", "n", "f">>, <<"i", "n", "f", "i", "n", "i", "t", "y">>}
    \/ LowerCase(t) = <<"n", "a", "n">>
    \/ Unsigned(t) = <<"N", "a", "N">>

\* A decimal floating-point literal: digits with an optional point, an
\* optional exponent and an optional type suffix.
IsDecimalDouble(t) ==
    LET u0 == Unsigned(t)
        u == IF u0 # <<>> /\ u0[Len(u0)] \in {"d", "D", "f", "F"}
             THEN SubSeq(u0, 1, Len(u0) - 1) ELSE u0
        e == FirstOf(u, {"e", "E"})
        mant == SubSeq(u, 1, e - 1)
        ex == Unsigned(SubSeq(u, e + 1, Len(u)))
        dot == FirstOf(mant, {"."})
        ip == SubSeq(mant, 1, dot - 1)
        fp == SubSeq(mant, dot + 1, Len(mant))
    IN  /\ AllDigits(ip) /\ AllDigits(fp) /\ Len(ip) + Len(fp) >= 1
        /\ (e <= Len(u) => AllDigits(ex) /\ Len(ex) >= 1)

\* col.cast('double').isNotNull(), line 99: the cast of a string that is no
\* number is null; isNotNull itself is never null.
cast_double_isNotNull(v) ==
    IF v.isNull THEN SQL_FALSE
    ELSE LET t == Trim(v.str)
         IN  sql_bool(IsSpecialDouble(t) \/ IsDecimalDouble(t))

\* a > b and a < b on two string columns, lines 173-174: the strings are
\* compared as strings; null when either is null.
str_gt(a, b) == IF a.isNull \/ b.isNull THEN SQL_NULL ELSE sql_bool(StrLess(b.str, a.str))
str_lt(a, b) == IF a.isNull \/ b.isNull THEN SQL_NULL ELSE sql_bool(StrLess(a.str, b.str))

----------------------------------------------------------------------------
(* The rule catalog and the datasets *)

\* required_fields, lines 49-71, in declaration (dict iteration) order.
required_fields ==
    << [name |-> "DocumentCount", data_type |-> "integer"],
       [name |-> "AmendedReturn", data_type |-> "boolean"],
       [name |-> "FAMLIPremiumStartDate", data_type |-> "date"],
       [name |-> "FAMLIPremiumEndDate", data_type |-> "date"],
       [name |-> "SettlementDate", data_type |-> "datetime"],
       [name |-> "EmployerLegalName", data_type |-> "string"],
       [name |-> "BusAdrStreet1", data_type |-> "string"],
       [name |-> "BusAdrCity", data_type |-> "string"],
       [name |-> "BusAdrStateCode", data_type |-> "string"],
       [name |-> "BusAdrPostalCode", data_type |-> "string"],
       [name |-> "BusAdrCountry", data_type |-> "string"],
       [name |-> "TotalWagesThisPeriod", data_type |-> "numeric"],
       [name |-> "PaymentAmountTotal", data_type |-> "numeric"],
       [name |-> "IsFinalReturn", data_type |-> "boolean"],
       [name |-> "EmployeeSSN", data_type |-> "string"],
       [name |-> "EmployeeFirstName", data_type |-> "string"],
       [name |-> "EmployeeLastName", data_type |-> "string"],
       [name |-> "YearToDateWages", data_type |-> "numeric"],
       [name |-> "GrossWagesThisQtr", data_type |-> "numeric"],
       [name |-> "SubjectWagesThisQtr", data_type |-> "numeric"],
       [name |-> "FAMLIContributionThisQtr", data_type |-> "numeric"] >>

CatalogFields == {required_fields[k].name : k \in 1..Len(required_fields)}

\* Every column a rule reads: the catalog and EmployerFEIN (line 148).
AllFields == CatalogFields \cup {"EmployerFEIN"}

\* A row that violates no rule.
BaseRow ==
    [DocumentCount |-> S(<<"1">>),
       AmendedReturn |-> S(<<"N">>),
       FAMLIPremiumStartDate |-> S(<<"2", "0", "2", "4", "-", "0", "1", "-", "0", "1">>),
       FAMLIPremiumEndDate |-> S(<<"2", "0", "2", "4", "-", "0", "3", "-", "3", "1">>),
       SettlementDate |-> S(<<"2", "0", "2", "4", "-", "0", "4", "-", "1", "5", " ", "1", "0", ":", "3", "0", ":", "0", "0">>),
       EmployerLegalName |-> S(<<"A", "c", "m", "e">>),
       BusAdrStreet1 |-> S(<<"1", " ", "M", "a", "i", "n", " ", "S", "t">>),
       BusAdrCity |-> S(<<"B", "o", "s", "t", "o", "n">>),
       BusAdrStateCode |-> S(<<"M", "A">>),
       BusAdrPostalCode |-> S(<<"0", "2", "1", "0", "8">>),
       BusAdrCountry |-> S(<<"U", "S">>),
       TotalWagesThisPeriod |-> S(<<"4", "0", "0", "0">>),
       PaymentAmountTotal |-> S(<<"1", "2", ".", "5">>),
       IsFinalReturn |-> S(<<"N">>),
       EmployeeSSN |-> S(<<"1", "2", "3", "4", "5", "6", "7", "8", "9">>),
       EmployeeFirstName |-> S(<<"A", "n", "n">>),
       EmployeeLastName |-> S(<<"L", "e", "e">>),
       YearToDateWages |-> S(<<"4", "0", "0", "0">>),
       GrossWagesThisQtr |-> S(<<"4", "0", "0", "0">>),
       SubjectWagesThisQtr |-> S(<<"4", "0", "0", "0">>),
       FAMLIContributionThisQtr |-> S(<<"1", "2", ".", "5">>),
       EmployerFEIN |-> S(<<"9", "8", "7", "6", "5", "4", "3", "2", "1">>)]

AllNullRow == [f \in AllFields |-> NULL]

WithCells(cells) == [f \in AllFields |-> IF f \in DOMAIN cells THEN cells[f] ELSE BaseRow[f]]

MissingLegalName == WithCells([EmployerLegalName |-> NULL])
LowerStateCode == WithCells([BusAdrStateCode |-> S(<<"m", "a">>)])
BadFormats ==
    WithCells([EmployeeSSN |-> S(<<"1", "2", "3", "4", "5", "6", "7", "8">>),
               BusAdrStateCode |-> S(<<"M", "a", "s", "s", "a", "c", "h", "u", "s", "e", "t", "t", "s">>),
               BusAdrPostalCode |-> S(<<"0", "2", "1", "0", "8", "-", "1", "2">>),
               EmployerFEIN |-> S(<<"1", "2", "3", "4", "5", "6", "7", "8", "A">>)])
LongPostalNoFEIN ==
    WithCells([BusAdrPostalCode |-> S(<<"0", "2", "1", "0", "8", "-", "1", "2", "3", "4">>),
               EmployerFEIN |-> NULL,
               EmployeeSSN |-> S(<<"0", "2", "1", "0">>)])
BadNumbers ==
    WithCells([TotalWagesThisPeriod |-> S(<<"a", "b", "c">>),
               PaymentAmountTotal |-> S(<<"N", "a", "N">>),
               FAMLIContributionThisQtr |-> S(<<"1", "e", "3">>),
               DocumentCount |-> S(<<"x">>),
               GrossWagesThisQtr |-> S(<<"a", "b", "c">>),
               EmployerFEIN |-> S(<<"1", "2", "-", "3", "4", "5", "6", "7", "8", "9">>)])
EndBeforeStart ==
    WithCells([FAMLIPremiumStartDate |-> S(<<"2", "0", "2", "4", "-", "0", "3", "-", "0", "1">>),
               FAMLIPremiumEndDate |-> S(<<"2", "0", "2", "4", "-", "0", "1", "-", "0", "1">>)])
ShortStartDate ==
    WithCells([FAMLIPremiumStartDate |-> S(<<"2", "0", "2", "4", "-", "3", "-", "1">>),
               FAMLIPremiumEndDate |-> S(<<"2", "0", "2", "4", "-", "0", "1", "-", "0", "1">>)])
NoSuchMonth ==
    WithCells([FAMLIPremiumStartDate |-> S(<<"2", "0", "2", "4", "-", "1", "3", "-", "0", "1">>),
               FAMLIPremiumEndDate |-> S(<<"2", "0", "2", "4", "-", "0", "1", "-", "0", "1">>)])
NullEndDate ==
    WithCells([FAMLIPremiumStartDate |-> S(<<"2", "0", "2", "4", "-", "0", "3", "-", "0", "1">>),
               FAMLIPremiumEndDate |-> NULL])
SameDates ==
    WithCells([FAMLIPremiumStartDate |-> S(<<"2", "0", "2", "4", "-", "0", "1", "-", "0", "1">>),
               FAMLIPremiumEndDate |-> S(<<"2", "0", "2", "4", "-", "0", "1", "-", "0", "1">>)])
TextEndDate ==
    WithCells([FAMLIPremiumStartDate |-> S(<<"2", "0", "2", "4", "-", "0", "3", "-", "0", "1">>),
               FAMLIPremiumEndDate |-> S(<<"a", "b", "c">>)])
BothWageClauses ==
    WithCells([SubjectWagesThisQtr |-> S(<<"5", "0", "0", "0">>),
               GrossWagesThisQtr |-> S(<<"4", "0", "0", "0">>),
               YearToDateWages |-> S(<<"3", "0", "0", "0">>)])
ShorterSubject ==
    WithCells([SubjectWagesThisQtr |-> S(<<"9", "0", "0">>),
               GrossWagesThisQtr |-> S(<<"1", "0", "0", "0">>),
               YearToDateWages |-> S(<<"2", "0", "0", "0">>)])
LongerSubject ==
    WithCells([SubjectWagesThisQtr |-> S(<<"1", "0", "0", "0">>),
               GrossWagesThisQtr |-> S(<<"9", "0", "0">>),
               YearToDateWages |-> S(<<"9", "0", "0">>)])
NullSubject ==
    WithCells([SubjectWagesThisQtr |-> NULL,
               GrossWagesThisQtr |-> S(<<"4", "0", "0", "0">>),
               YearToDateWages |-> S(<<"3", "0", "0", "0">>)])

\* The rows a dataset of the model is made of.
RowTemplates ==
    {BaseRow, AllNullRow, MissingLegalName, LowerStateCode, BadFormats,
     LongPostalNoFEIN, BadNumbers, EndBeforeStart, ShortStartDate, NoSuchMonth,
     NullEndDate, SameDates, TextEndDate, BothWageClauses, ShorterSubject,
     LongerSubject, NullSubject}

\* The columns a header of the model may lack: the first catalog field, a
\* date field, a wage field and the field outside the catalog.
DroppedColumns == {"DocumentCount", "FAMLIPremiumEndDate", "SubjectWagesThisQtr", "EmployerFEIN"}

\* The headers a dataset of the model may have: every column, or one missing.
ColumnChoices == {AllFields} \cup {AllFields \ {f} : f \in DroppedColumns}

\* A 100-row dataset: 3 rows without EmployerLegalName, 2 rows with a lower-case
\* state code, 95 rows that violate no rule.
EndToEndDataset ==
    [k \in 1..100 |-> IF k \in {10, 20, 30} THEN MissingLegalName
                      ELSE IF k \in {40, 50} THEN LowerStateCode
                      ELSE BaseRow]

Datasets == UNION {[1..n -> RowTemplates] : n \in 0..MaxRows} \cup {EndToEndDataset}

----------------------------------------------------------------------------
(* The filter conditions of the rules, as SQL booleans of one row *)

\* col(field).isNull(), line 75.
null_condition(field, row) == isNull(row[field])

\* Lines 85-88.
date_format_condition(field, row) ==
    sql_and(isNotNull(row[field]), sql_not(rlike(row[field], "^[0-9]{4}-[0-9]{2}-[0-9]{2}$")))

\* The numeric rule with a cast that never yields null.
numeric_condition_cast_string(field, row) ==
    sql_and(isNotNull(row[field]), sql_not(isNotNull(row[field])))

\* Lines 97-100.
numeric_condition(field, row) ==
    sql_and(isNotNull(row[field]), sql_not(cast_double_isNotNull(row[field])))

\* The SSN rule without the null guard, a null taken as a mismatch.
ssn_condition_null_mismatch(row) ==
    IF row["EmployeeSSN"].isNull THEN SQL_TRUE
    ELSE sql_not(rlike(row["EmployeeSSN"], "^[0-9]{9}$"))

\* Lines 111-114.
ssn_condition(row) ==
    sql_and(isNotNull(row["EmployeeSSN"]),
            sql_not(rlike(row["EmployeeSSN"], "^[0-9]{9}$")))

ToUpper(c) == IF c \in Range(Lower) THEN Upper[IndexIn(Lower, c)] ELSE c

\* The state code rule with a pattern that ignores case.
state_code_condition_any_case(row) ==
    sql_and(isNotNull(row["BusAdrStateCode"]),
            sql_not(sql_bool(matches_state_code(
                [k \in 1..Len(row["BusAdrStateCode"].str) |->
                    ToUpper(row["BusAdrStateCode"].str[k])]))))

\* Lines 123-126.
state_code_condition(row) ==
    sql_and(isNotNull(row["BusAdrStateCode"]),
            sql_not(rlike(row["BusAdrStateCode"], "^[A-Z]{2}$")))

\* Lines 135-138.
postal_code_condition(row) ==
    sql_and(isNotNull(row["BusAdrPostalCode"]),
            sql_not(rlike(row["BusAdrPostalCode"], "^[0-9]{5}(?:-[0-9]{4})?$")))

\* Lines 147-150.
fein_condition(row) ==
    sql_and(isNotNull(row["EmployerFEIN"]),
            sql_not(rlike(row["EmployerFEIN"], "^[0-9]{9}$")))

\* The date order rule with <= in place of <.
date_order_condition_or_equal(row) ==
    LET e == to_date(row["FAMLIPremiumEndDate"])
        b == to_date(row["FAMLIPremiumStartDate"])
    IN  sql_or(date_lt(e, b), sql_not(sql_or(date_lt(e, b), date_lt(b, e))))

\* Lines 161-163.
date_order_condition(row) ==
    date_lt(to_date(row["FAMLIPremiumEndDate"]), to_date(row["FAMLIPremiumStartDate"]))

\* Lines 172-175.
contribution_condition(row) ==
    sql_or(str_gt(row["SubjectWagesThisQtr"], row["GrossWagesThisQtr"]),
           str_lt(row["YearToDateWages"], row["GrossWagesThisQtr"]))

\* df.filter(condition).count(), given the condition's value in each row:
\* the rows whose condition is true (a null condition filters the row out).
filter_count(conditions) ==
    Cardinality({k \in 1..Len(conditions) : conditions[k] = SQL_TRUE})

\* The append without the count > 0 test.
append_issue_any_count(results, field, issue, count) ==
    Append(results, [field |-> field, issue |-> issue, count |-> count])

\* if count > 0: validation_results.append({...}), lines 76-81 and alike.
append_issue(results, field, issue, count) ==
    IF count > 0
    THEN Append(results, [field |-> field, issue |-> issue, count |-> count])
    ELSE results

\* The presence check of one catalog field, lines 75-81.
presence_check(results, df_rows, field) ==
    append_issue(results, field, "Missing required field: " \o field,
                 filter_count([k \in 1..Len(df_rows) |-> null_condition(field, df_rows[k])]))

\* The data type check of one catalog field, lines 84-106.
data_type_check(results, df_rows, field, data_type) ==
    IF data_type = "date"
    THEN append_issue(results, field, "Invalid date format in " \o field,
                      filter_count([k \in 1..Len(df_rows) |->
                                        date_format_condition(field, df_rows[k])]))
    ELSE IF data_type = "numeric"
    THEN append_issue(results, field, "Invalid numeric value in " \o field,
                      filter_count([k \in 1..Len(df_rows) |->
                                        numeric_condition(field, df_rows[k])]))
    ELSE results

\* The iteration with the data type check ahead of the presence check.
required_field_checks_type_first(results, df_rows, field, data_type) ==
    presence_check(data_type_check(results, df_rows, field, data_type), df_rows, field)

\* One iteration of the loop of line 73: presence, then data type.
required_field_checks(results, df_rows, field, data_type) ==
    data_type_check(presence_check(results, df_rows, field), df_rows, field, data_type)

----------------------------------------------------------------------------
(* The script *)

DefaultOutputPath == "s3://reports/famli"
OutputPaths == {DefaultOutputPath, "s3://reports/archive"}

\* datetime.now().strftime('%Y%m%d_%H%M%S'), line 190: the clock reading cut
\* to whole seconds.
strftime(now) == now \div TicksPerSecond

\* Line 191.
output_path_with_timestamp(path, now) ==
    [output_path |-> path, name |-> "validation_results_", timestamp |-> strftime(now)]

\* The rows of a file whose header holds the columns cols.
Project(df_rows, cols) == [k \in 1..Len(df_rows) |-> [f \in cols |-> df_rows[k][f]]]

\* The state after lines 25-44: df is loaded and validation_results is empty.
Begin(cols, df_rows) ==
    /\ columns = cols
    /\ rows = Project(df_rows, cols)
    /\ validation_results = <<>>
    /\ pc = "required_fields"
    /\ field_idx = 1
    /\ error = "none"

\* The datasets of the runs of SpecJobs.
JobColumnChoices == {AllFields, AllFields \ {"EmployerFEIN"}}
JobDatasets == {<<>>, <<BaseRow>>, <<BadFormats>>, <<BaseRow, LowerStateCode>>}

Init ==
    /\ \E cols \in ColumnChoices, df_rows \in Datasets : Begin(cols, df_rows)
    /\ output_path = DefaultOutputPath
    /\ clock = 0
    /\ written = <<>>
    /\ runs = 1

\* An exception leaves validate_data_quality and ends the script.
Raise(exception) ==
    /\ pc' = "failed"
    /\ error' = exception
    /\ UNCHANGED <<columns, rows, validation_results, field_idx, output_path, clock, written, runs>>

\* Goes on to the next statement with the results the rule leaves.
Continue(next_pc, results) ==
    /\ pc' = next_pc
    /\ validation_results' = results
    /\ UNCHANGED <<columns, rows, error, output_path, clock, written, runs>>

\* One iteration of the loop of lines 73-106.  col(field) of a column df
\* does not have fails the analysis of the filter.
CheckRequiredField ==
    /\ pc = "required_fields"
    /\ LET field == required_fields[field_idx].name
           data_type == required_fields[field_idx].data_type
           last == field_idx = Len(required_fields)
       IN  IF field \notin columns
           THEN Raise("AnalysisException") /\ UNCHANGED field_idx
           ELSE /\ Continue(IF last THEN "ssn" ELSE "required_fields",
                            required_field_checks(validation_results, rows, field, data_type))
                /\ field_idx' = IF last THEN field_idx ELSE field_idx + 1

\* A rule after the loop: reads its columns, counts, appends.
Rule(reads, next_pc, field, issue, conditions) ==
    /\ IF ~(reads \subseteq columns)
       THEN Raise("AnalysisException")
       ELSE Continue(next_pc,
                     append_issue(validation_results, field, issue, filter_count(conditions)))
    /\ UNCHANGED field_idx

\* Lines 110-120.
CheckSSN ==
    /\ pc = "ssn"
    /\ Rule({"EmployeeSSN"}, "state_code",
            "EmployeeSSN", "Invalid SSN format",
            [k \in 1..Len(rows) |-> ssn_condition(rows[k])])

\* Lines 122-132.
CheckStateCode ==
    /\ pc = "state_code"
    /\ Rule({"BusAdrStateCode"}, "postal_code",
            "BusAdrStateCode", "Invalid state code format",
            [k \in 1..Len(rows) |-> state_code_condition(rows[k])])

\* Lines 134-144.
CheckPostalCode ==
    /\ pc = "postal_code"
    /\ Rule({"BusAdrPostalCode"}, "fein",
            "BusAdrPostalCode", "Invalid postal code format",
            [k \in 1..Len(rows) |-> postal_code_condition(rows[k])])

\* Lines 146-156.
CheckFEIN ==
    /\ pc = "fein"
    /\ Rule({"EmployerFEIN"}, "date_order",
            "EmployerFEIN", "Invalid FEIN format",
            [k \in 1..Len(rows) |-> fein_condition(rows[k])])

\* Lines 160-169.
CheckDateOrder ==
    /\ pc = "date_order"
    /\ Rule({"FAMLIPremiumEndDate", "FAMLIPremiumStartDate"}, "contribution",
            "FAMLIPremiumDates", "End date is before start date",
            [k \in 1..Len(rows) |-> date_order_condition(rows[k])])

\* Lines 171-181.
CheckContribution ==
    /\ pc = "contribution"
    /\ Rule({"SubjectWagesThisQtr", "GrossWagesThisQtr", "YearToDateWages"},
            "create_dataframe",
            "WagesCalculation", "Invalid wage calculations",
            [k \in 1..Len(rows) |-> contribution_condition(rows[k])])

\* Lines 184-187: spark.createDataFrame infers the schema from the records
\* and raises ValueError when the list holds none.
CreateDataFrame ==
    /\ pc = "create_dataframe"
    /\ IF validation_results = <<>>
       THEN Raise("ValueError")
       ELSE Continue("write", validation_results)
    /\ UNCHANGED field_idx

\* Lines 190-200.
WriteReport ==
    /\ pc = "write"
    /\ written' = Append(written, output_path_with_timestamp(output_path, clock))
    /\ pc' = "commit"
    /\ UNCHANGED <<columns, rows, validation_results, field_idx, error, output_path, clock, runs>>

\* Line 207.
Commit ==
    /\ pc = "commit"
    /\ pc' = "done"
    /\ UNCHANGED <<columns, rows, validation_results, field_idx, error, output_path, clock, written, runs>>

Next ==
    \/ CheckRequiredField
    \/ CheckSSN
    \/ CheckStateCode
    \/ CheckPostalCode
    \/ CheckFEIN
    \/ CheckDateOrder
    \/ CheckContribution
    \/ CreateDataFrame
    \/ WriteReport
    \/ Commit

Spec == Init /\ [][Next]_vars

\* Another run of the job starts once the previous one has ended.
Invoke ==
    /\ pc \in {"done", "failed"}
    /\ runs < MaxRuns
    /\ runs' = runs + 1
    /\ \E cols \in JobColumnChoices, df_rows \in JobDatasets :
          /\ columns' = cols
          /\ rows' = Project(df_rows, cols)
    /\ output_path' \in OutputPaths
    /\ validation_results' = <<>>
    /\ pc' = "required_fields"
    /\ field_idx' = 1
    /\ error' = "none"
    /\ UNCHANGED <<clock, written>>

\* Time passes, whatever the script is doing.
Tick ==
    /\ clock < MaxClock
    /\ clock' = clock + 1
    /\ UNCHANGED <<columns, rows, validation_results, pc, field_idx, error, written, runs,
                   output_path>>

InitJobs ==
    /\ \E cols \in JobColumnChoices, df_rows \in JobDatasets : Begin(cols, df_rows)
    /\ output_path \in OutputPaths
    /\ clock = 0
    /\ written = <<>>
    /\ runs = 1

NextJobs == Next \/ Invoke \/ Tick

\* Successive runs of the job against a running clock.
SpecJobs == InitJobs /\ [][NextJobs]_vars

----------------------------------------------------------------------------
(* What the report is checked against: the offending rows of each rule,   *)
(* stated row by row in two-valued logic.                                  *)

RowIds == 1..Len(rows)

NullRows(f) == {k \in RowIds : rows[k][f].isNull}
NonNullRows(f) == {k \in RowIds : ~rows[k][f].isNull}
MismatchRows(f, Matches(_)) == {k \in NonNullRows(f) : ~Matches(rows[k][f].str)}

IsNumberText(t) == IsSpecialDouble(Trim(t)) \/ IsDecimalDouble(Trim(t))

\* A day count that orders dates.
Ordinal(date) == date.y * 372 + (date.m - 1) * 31 + date.d

EndBeforeStartRows ==
    {k \in NonNullRows("FAMLIPremiumEndDate") \cap NonNullRows("FAMLIPremiumStartDate") :
        LET e == to_date(rows[k]["FAMLIPremiumEndDate"])
            b == to_date(rows[k]["FAMLIPremiumStartDate"])
        IN  ~e.isNull /\ ~b.isNull /\ Ordinal(e) < Ordinal(b)}

\* The rows of the wage rule as the strings of the cells order.
WageRowsAsStrings ==
    {k \in NonNullRows("GrossWagesThisQtr") :
        \/ /\ ~rows[k]["SubjectWagesThisQtr"].isNull
           /\ StrLess(rows[k]["GrossWagesThisQtr"].str, rows[k]["SubjectWagesThisQtr"].str)
        \/ /\ ~rows[k]["YearToDateWages"].isNull
           /\ StrLess(rows[k]["YearToDateWages"].str, rows[k]["GrossWagesThisQtr"].str)}

PresenceIssue(f) == "Missing required field: " \o f

FormatIssue(spec) ==
    IF spec.data_type = "date" THEN "Invalid date format in " \o spec.name
    ELSE IF spec.data_type = "numeric" THEN "Invalid numeric value in " \o spec.name
    ELSE "no data type rule"

FormatRows(spec) ==
    IF spec.data_type = "date" THEN MismatchRows(spec.name, matches_date_pattern)
    ELSE IF spec.data_type = "numeric" THEN MismatchRows(spec.name, IsNumberText)
    ELSE {}

NumCatalogRules == 2 * Len(required_fields)
NumRules == NumCatalogRules + 6

\* The (field, issue) pairs in the order the rules are evaluated.
RuleOrder ==
    [k \in 1..NumRules |->
        IF k <= NumCatalogRules
        THEN LET spec == required_fields[(k + 1) \div 2]
             IN  IF k % 2 = 1 THEN <<spec.name, PresenceIssue(spec.name)>>
                 ELSE <<spec.name, FormatIssue(spec)>>
        ELSE << <<"EmployeeSSN", "Invalid SSN format">>,
                <<"BusAdrStateCode", "Invalid state code format">>,
                <<"BusAdrPostalCode", "Invalid postal code format">>,
                <<"EmployerFEIN", "Invalid FEIN format">>,
                <<"FAMLIPremiumDates", "End date is before start date">>,
                <<"WagesCalculation", "Invalid wage calculations">> >>[k - NumCatalogRules]]

\* The offending rows of the k-th rule.
RuleRows(k) ==
    IF k <= NumCatalogRules
    THEN LET spec == required_fields[(k + 1) \div 2]
         IN  IF k % 2 = 1 THEN NullRows(spec.name) ELSE FormatRows(spec)
    ELSE CASE k = NumCatalogRules + 1 -> MismatchRows("EmployeeSSN", matches_nine_digits)
           [] k = NumCatalogRules + 2 -> MismatchRows("BusAdrStateCode", matches_state_code)
           [] k = NumCatalogRules + 3 -> MismatchRows("BusAdrPostalCode", matches_postal_code)
           [] k = NumCatalogRules + 4 -> MismatchRows("EmployerFEIN", matches_nine_digits)
           [] k = NumCatalogRules + 5 -> EndBeforeStartRows
           [] OTHER -> WageRowsAsStrings

IssuesOf(field, issue) ==
    {i \in 1..Len(validation_results) :
        validation_results[i].field = field /\ validation_results[i].issue = issue}

\* The count the report gives for a (field, issue) pair, 0 when it has none.
IssueCount(field, issue) ==
    IF IssuesOf(field, issue) = {} THEN 0
    ELSE validation_results[CHOOSE i \in IssuesOf(field, issue) : TRUE].count

\* Every rule has been evaluated.
RulesDone ==
    \/ pc \in {"create_dataframe", "write", "commit", "done"}
    \/ pc = "failed" /\ error = "ValueError"

----------------------------------------------------------------------------
(* Claims *)

\* C1: every Issue record of validation_results has count >= 1; a rule whose
\* offending-row count is 0 appends nothing.
C1_IssueCountsArePositive ==
    /\ \A i \in 1..Len(validation_results) : validation_results[i].count >= 1
    /\ RulesDone =>
          \A k \in 1..NumRules :
              RuleRows(k) = {} => IssuesOf(RuleOrder[k][1], RuleOrder[k][2]) = {}

\* A finished run in which one rule found offending rows and the others none.
C1_Witness ==
    /\ pc = "done"
    /\ Len(validation_results) = 1
    /\ Len(rows) = 2

\* C2: once every rule is evaluated the report holds exactly one Issue for
\* each rule that found offending rows, with the number of those rows as its
\* count, and nothing else; the 100-row dataset with 3 rows without
\* EmployerLegalName and 2 rows with an invalid state code yields exactly the
\* two issues with counts 3 and 2.
C2_ReportIsOneIssuePerViolatedRule ==
    RulesDone =>
        /\ \A k \in 1..NumRules :
              LET offending == Cardinality(RuleRows(k))
              IN  /\ Cardinality(IssuesOf(RuleOrder[k][1], RuleOrder[k][2]))
                        = (IF offending = 0 THEN 0 ELSE 1)
                  /\ IssueCount(RuleOrder[k][1], RuleOrder[k][2]) = offending
        /\ Len(validation_results) = Cardinality({k \in 1..NumRules : RuleRows(k) # {}})
        /\ Len(rows) = 100 =>
              validation_results =
                 << [field |-> "EmployerLegalName",
                     issue |-> "Missing required field: EmployerLegalName", count |-> 3],
                    [field |-> "BusAdrStateCode",
                     issue |-> "Invalid state code format", count |-> 2] >>

\* The run over the 100-row dataset has finished.
C2_Witness ==
    /\ pc = "done"
    /\ Len(rows) = 100
    /\ Len(validation_results) = 2

\* The position of each (field, issue) pair in the evaluation order.
PositionOf ==
    [key \in {RuleOrder[k] : k \in 1..NumRules} |->
        CHOOSE k \in 1..NumRules : RuleOrder[k] = key]

Position(e) == PositionOf[<<e.field, e.issue>>]

\* C3: at every moment the issues of the report stand in evaluation order:
\* catalog fields in declared order, presence before format for one field,
\* then SSN, state code, postal code, FEIN, premium dates, wages.
C3_IssuesInEvaluationOrder ==
    /\ \A i \in 1..Len(validation_results) :
          <<validation_results[i].field, validation_results[i].issue>> \in DOMAIN PositionOf
    /\ LET position == [i \in 1..Len(validation_results) |-> Position(validation_results[i])]
       IN  \A i, j \in 1..Len(validation_results) : i < j => position[i] < position[j]

\* A finished run whose report holds the presence issue of a field right
\* before its format issue, the first catalog field's issue at the top and
\* the wage issue at the end.
C3_Witness ==
    /\ pc = "done"
    /\ validation_results[1].field = "DocumentCount"
    /\ validation_results[Len(validation_results)].field = "WagesCalculation"
    /\ \E i \in 1..(Len(validation_results) - 1) :
          /\ validation_results[i].issue = "Missing required field: TotalWagesThisPeriod"
          /\ validation_results[i + 1].issue = "Invalid numeric value in TotalWagesThisPeriod"
    /\ \E i \in 1..Len(validation_results) : validation_results[i].field = "EmployerFEIN"

\* The rows the claim says the run must treat as null in a missing column.
MissingColumns == AllFields \ columns

\* C4: a dataset without a column a rule reads does not fail: a missing
\* catalog field is reported missing in every row and gets no format issue, a
\* missing EmployerFEIN gets no issue.
C4_MissingColumnIsAllNull ==
    MissingColumns # {} =>
        /\ pc # "failed"
        /\ RulesDone =>
              \A f \in MissingColumns :
                  /\ f \in CatalogFields => IssueCount(f, PresenceIssue(f)) = Len(rows)
                  /\ \A i \in 1..Len(validation_results) :
                        validation_results[i].field = f
                            => validation_results[i].issue = PresenceIssue(f)

\* C5: when no rule finds a violation the empty report is still
\* materialized and written, and the run ends normally.
C5_EmptyReportIsWritten ==
    /\ (columns = AllFields /\ validation_results = <<>>) => pc # "failed"
    /\ (pc = "done" /\ validation_results = <<>>) => written # <<>>

PlainDecimal(v) ==
    /\ ~v.isNull
    /\ LET dot == FirstOf(v.str, {"."})
           ip == SubSeq(v.str, 1, dot - 1)
           fp == SubSeq(v.str, dot + 1, Len(v.str))
       IN  AllDigits(ip) /\ AllDigits(fp) /\ Len(ip) >= 1 /\ Len(fp) <= 3

\* The number a plain decimal cell denotes, in thousandths.
Thousandths(v) ==
    LET dot == FirstOf(v.str, {"."})
        ip == SubSeq(v.str, 1, dot - 1)
        fp == SubSeq(v.str, dot + 1, Len(v.str))
        pad == [k \in 1..3 |-> IF k <= Len(fp) THEN fp[k] ELSE "0"]
    IN  ToNat(ip) * 1000 + ToNat(pad)

WageFields == {"SubjectWagesThisQtr", "GrossWagesThisQtr", "YearToDateWages"}

\* The rows of the wage rule as the numbers in the cells order.
WageRowsAsNumbers ==
    {k \in RowIds :
        LET sw == rows[k]["SubjectWagesThisQtr"]
            gw == rows[k]["GrossWagesThisQtr"]
            yw == rows[k]["YearToDateWages"]
        IN  \/ PlainDecimal(sw) /\ PlainDecimal(gw) /\ Thousandths(sw) > Thousandths(gw)
            \/ PlainDecimal(yw) /\ PlainDecimal(gw) /\ Thousandths(yw) < Thousandths(gw)}

\* C6: the wage rule emits at most one issue, whose count is the number of
\* rows where SubjectWagesThisQtr > GrossWagesThisQtr or YearToDateWages <
\* GrossWagesThisQtr as numbers; the count never exceeds the number of rows.
C6_WageRuleComparesNumbers ==
    (RulesDone /\ \A k \in RowIds, f \in WageFields : rows[k][f].isNull \/ PlainDecimal(rows[k][f]))
        => /\ Cardinality(IssuesOf("WagesCalculation", "Invalid wage calculations")) <= 1
           /\ IssueCount("WagesCalculation", "Invalid wage calculations")
                 = Cardinality(WageRowsAsNumbers)
           /\ IssueCount("WagesCalculation", "Invalid wage calculations") <= Len(rows)

\* C7: the premium date rule counts exactly the rows whose two dates are
\* non-null, parse as dates and have the end strictly before the start; no
\* other row is counted and none makes the rule fail.
C7_DateOrderCountsOnlyParsedEarlierEnd ==
    /\ RulesDone =>
          IssueCount("FAMLIPremiumDates", "End date is before start date")
              = Cardinality(EndBeforeStartRows)
    /\ (pc = "failed" /\ error = "AnalysisException") => MissingColumns # {}

\* A finished run over a row with the end before the start and a row whose
\* start date does not parse, is null or equals the end date.
C7_Witness ==
    /\ pc = "done"
    /\ IssueCount("FAMLIPremiumDates", "End date is before start date") = 1
    /\ \E k \in RowIds :
          \/ to_date(rows[k]["FAMLIPremiumStartDate"]).isNull
          \/ rows[k]["FAMLIPremiumEndDate"].isNull
          \/ rows[k]["FAMLIPremiumEndDate"] = rows[k]["FAMLIPremiumStartDate"]

\* The issue of each format rule, with the field it reads.
FormatRules ==
    {<<required_fields[k].name, FormatIssue(required_fields[k])>> : k \in 1..Len(required_fields)}
    \cup {<<"EmployeeSSN", "Invalid SSN format">>,
          <<"BusAdrStateCode", "Invalid state code format">>,
          <<"BusAdrPostalCode", "Invalid postal code format">>,
          <<"EmployerFEIN", "Invalid FEIN format">>}

\* C8: a null value is counted by the presence rule and by no format rule,
\* a non-null value is not counted by the presence rule; so for each field
\* the presence count plus a format count is at most the number of rows.
C8_NullCountedByPresenceOnly ==
    RulesDone =>
        /\ \A f \in CatalogFields : IssueCount(f, PresenceIssue(f)) = Cardinality(NullRows(f))
        /\ \A r \in FormatRules :
              /\ IssueCount(r[1], r[2]) <= Cardinality(NonNullRows(r[1]))
              /\ IssueCount(r[1], PresenceIssue(r[1])) + IssueCount(r[1], r[2]) <= Len(rows)

\* A finished run over a row with a null SSN and a row with a malformed one.
C8_Witness ==
    /\ pc = "done"
    /\ IssueCount("EmployeeSSN", PresenceIssue("EmployeeSSN")) = 1
    /\ IssueCount("EmployeeSSN", "Invalid SSN format") = 1
    /\ IssueCount("FAMLIPremiumStartDate", "Invalid date format in FAMLIPremiumStartDate") = 0

\* C9: no two invocations write their reports to the same destination path.
C9_DestinationPathsAreDistinct ==
    \A i, j \in 1..Len(written) : i # j => written[i] # written[j]

\* The malformed values of a catalog field: the non-null values its data
\* type rule is meant to reject.
MalformedRows(spec) ==
    IF spec.data_type = "date" THEN MismatchRows(spec.name, matches_date_pattern)
    ELSE IF spec.data_type = "numeric" THEN MismatchRows(spec.name, IsNumberText)
    ELSE {}

HasMalformedValue ==
    \E k \in 1..Len(required_fields) :
        required_fields[k].name \in columns /\ MalformedRows(required_fields[k]) # {}

\* C10: a malformed value makes no rule raise: the run fails only for a
\* missing column or an empty report, a dataset with its columns and a
\* malformed value goes on to the report write, and the value is counted by
\* the format rule of its field.
C10_MalformedValuesAreCounted ==
    /\ pc = "failed" =>
          \/ error = "AnalysisException" /\ MissingColumns # {}
          \/ error = "ValueError" /\ ~HasMalformedValue
    /\ ((pc \in {"failed", "create_dataframe"} \/ RulesDone)
           /\ columns = AllFields /\ HasMalformedValue) =>
          /\ pc # "failed"
          /\ pc = "create_dataframe" => validation_results # <<>>
          /\ RulesDone =>
                \A k \in 1..Len(required_fields) :
                    IssueCount(required_fields[k].name, FormatIssue(required_fields[k]))
                        = Cardinality(MalformedRows(required_fields[k]))

\* A written report over text in a numeric field, in a wage field and in a
\* premium date field.
C10_Witness ==
    /\ pc = "done"
    /\ Len(written) = 1
    /\ IssueCount("TotalWagesThisPeriod", "Invalid numeric value in TotalWagesThisPeriod") = 1
    /\ IssueCount("GrossWagesThisQtr", "Invalid numeric value in GrossWagesThisQtr") = 1
    /\ IssueCount("FAMLIPremiumEndDate", "Invalid date format in FAMLIPremiumEndDate") = 1

====
